---- MODULE Spec2Model ----
(***************************************************************************)
(* papatcher.py: the patch synchronisation engine of PAPatcher.            *)
(*                                                                         *)
(* One run is one process: get_manifest (purge of the stream's cache       *)
(* directory, parallel verification of the manifest's bundles in a         *)
(* ThreadPoolExecutor), then patch (downloads in the main thread, one      *)
(* extraction task per downloaded bundle in a second ThreadPoolExecutor).  *)
(* The cache directory and the installation tree are files: they survive   *)
(* the process and are what the next run starts from.                      *)
(*                                                                         *)
(* A bundle is identified by the number of its blob: the blob of bundle b  *)
(* is the content b, its checksum (and cache file name) is Sha1(b).        *)
(* Content 0 is a blob that is no bundle's blob (truncated, corrupt).      *)
(***************************************************************************)
EXTENDS Integers, Sequences, FiniteSets, TLC

\* ---- bounds ----
NumBundles == 2
MaxThreads == 2

\* ---- data ----
AllBundles == 1..NumBundles
Content == 0..NumBundles
ThreadCounts == 1..MaxThreads

\* hashlib.sha1(...).hexdigest() of a blob: a digest, never the blob itself
Sha1(c) == (7 * c + 3) % 31

\* bundle["checksum"]
Checksum(b) == Sha1(b)

\* int(bundle["size"]): bundles 1 and 2 declare the same size, bundle 3 a
\* larger one
Size(b) == 10 * ((b + 1) \div 2)

\* len(bundle["entries"]): bundle 1 has two entries, the others one
EntryCount(b) == IF b = 1 THEN 2 ELSE 1
EntriesOf(b) == 1..EntryCount(b)

\* names a file of the stream's cache directory can have
Names == {Checksum(b) : b \in AllBundles}

\* entry_file of entry i of bundle b: game_base / entry["filename"][1:]
EntryFile(b, i) == <<b, i>>

\* the bytes an entry's file receives from the blob read at its offset
EntryData(blob, i) == 10 * blob + i

\* a partial function as a directory listing
Restrict(f, S) == [x \in (DOMAIN f) \cap S |-> f[x]]
Put(f, k, v) == [x \in (DOMAIN f) \cup {k} |-> IF x = k THEN v ELSE f[x]]
Range(s) == {s[i] : i \in DOMAIN s}
Count(s, x) == Cardinality({i \in DOMAIN s : s[i] = x})

VARIABLES
    cache,        \* CACHE_DIR/<stream>: file name -> blob
    tree,         \* GAME_ROOT/<stream>: entry file -> bytes
    pc,           \* where the main thread of the run is
    exitCode,     \* exit status of the process once pc = "exited"
    manifest,     \* self._manifest["bundles"], as the set of its bundles
    full,         \* arguments.full
    threads,      \* arguments.threads
    bundles,      \* self._bundles
    vtask,        \* futures of _verify_bundle
    idx,          \* position of patch() in its loop over self._bundles
    etask,        \* futures of _extract_bundle
    eidx,         \* entries an extraction task has processed
    dlStarted,    \* history: bundles whose download was started in this run
    dlFailed,     \* history: bundles whose download failed in this run
    cacheBefore,  \* history: the cache directory when the run started
    treeBefore,   \* history: the installation tree when the run started
    prev          \* history: the previous run had no full and exited with 0

\* one call of _extract_bundle, looked at byte by byte
VARIABLES
    entries,      \* bundle["entries"] as the manifest lists them
    files,        \* GAME_ROOT/<stream>: path -> content and mode of the file
    todo,         \* the sorted entries the loop has not reached yet
    processed,    \* history: the entries in the order the loop took them
    filesBefore,  \* history: files when _extract_bundle was called
    epc           \* where the call is

\* the ProgressMeter of one download
VARIABLES
    last_fraction,  \* self.last_fraction: <<>> is None, <<d>> is d / total
    shown,          \* history: the last two fractions that were printed
    dlnow           \* bytes received so far

\* one PAPatcher object whose methods are called in any order
VARIABLES
    attrs,        \* the attributes the object has
    streamNames,  \* keys of self._streams
    lastCall,     \* history: the last method call, its result, what it did
    loginSince,   \* history: a login succeeded after the last get_streams
    selected      \* history: a get_manifest call has selected a stream

extractVars == <<entries, files, todo, processed, filesBefore, epc>>
meterVars == <<last_fraction, shown, dlnow>>
apiVars == <<attrs, streamNames, lastCall, loginSince, selected>>
unitVars == <<extractVars, meterVars, apiVars>>

vars == <<cache, tree, pc, exitCode, manifest, full, threads, bundles,
          vtask, idx, etask, eidx, dlStarted, dlFailed, cacheBefore,
          treeBefore, prev, unitVars>>

\* no _extract_bundle call, no ProgressMeter, no object under study
ExtractIdle ==
    /\ entries = <<>>
    /\ files = <<>>
    /\ todo = <<>>
    /\ processed = <<>>
    /\ filesBefore = <<>>
    /\ epc = "idle"
MeterIdle ==
    /\ last_fraction = <<>>
    /\ shown = <<>>
    /\ dlnow = 0
NoCall == [op |-> "none", arg |-> "none", result |-> "none", sent |-> FALSE,
           acted |-> FALSE]
ApiIdle ==
    /\ attrs = {}
    /\ streamNames = {}
    /\ lastCall = NoCall
    /\ loginSince = FALSE
    /\ selected = FALSE

\* ---- the code's decisions ----

\* _verify_bundle: the bundle is appended to self._bundles when its cache
\* file does not exist or its SHA-1 differs from the checksum
NeedsDownloadIgnoringDigest(dir, b) == Checksum(b) \notin DOMAIN dir
NeedsDownloadInverted(dir, b) ==
    \/ Checksum(b) \notin DOMAIN dir
    \/ Sha1(dir[Checksum(b)]) = Checksum(b)
NeedsDownload(dir, b) ==
    \/ Checksum(b) \notin DOMAIN dir
    \/ Sha1(dir[Checksum(b)]) # Checksum(b)

\* _verify_manifest: "if full or cache_file.name not in bundle_names"
ShouldPurgeIgnoringFull(f, name, bundle_names) == name \notin bundle_names
ShouldPurgeOnlyFull(f, name, bundle_names) == f
ShouldPurgeAlways(f, name, bundle_names) == TRUE
ShouldPurge(f, name, bundle_names) == f \/ name \notin bundle_names

\* _download_bundle's return value: curl.perform() did not raise and the
\* SHA-1 of the written file equals the checksum
DownloadReturnsUnchecked(performed, blob, b) == performed
DownloadReturns(performed, blob, b) == performed /\ Sha1(blob) = Checksum(b)

\* completed.result() of a _verify_bundle future: True, or the task's
\* exception raised again in the main thread
VerifyResultSwallowed(t) == FALSE
VerifyResultRaises(t) == t = "failed"

\* completed.result() of an _extract_bundle future
ExtractResultSwallowed(t) == FALSE
ExtractResultRaises(t) == t = "failed"

\* self._bundles.sort(key=int(size), reverse=True): stable, largest first
RECURSIVE InsertBySize(_, _)
InsertBySize(s, b) ==
    IF s = <<>> THEN <<b>>
    ELSE IF Size(Head(s)) >= Size(b) THEN <<Head(s)>> \o InsertBySize(Tail(s), b)
    ELSE <<b>> \o s
RECURSIVE SortBySize(_)
SortBySize(s) ==
    IF s = <<>> THEN <<>>
    ELSE InsertBySize(SortBySize(SubSeq(s, 1, Len(s) - 1)), s[Len(s)])

\* bundle_futures of _verify_manifest are submitted in manifest order
ManifestSeq(m) ==
    LET RECURSIVE Asc(_)
        Asc(S) == IF S = {} THEN <<>>
                  ELSE LET x == CHOOSE y \in S : \A z \in S : y <= z
                       IN <<x>> \o Asc(S \ {x})
    IN Asc(m)

\* a worker thread of a ThreadPoolExecutor(max_workers=threads) is free
Running(t) == {b \in DOMAIN t : t[b] = "running"}
WorkerFree(t) == Cardinality(Running(t)) < threads

\* the work queue is FIFO: the next task to start is the first pending one
FirstPending(order, t) ==
    LET P == {i \in DOMAIN order : t[order[i]] = "pending"}
    IN order[CHOOSE i \in P : \A j \in P : i <= j]
HasPending(t) == \E b \in DOMAIN t : t[b] = "pending"

\* shutdown of the executor returns
QuiescentNoWait(t) == TRUE
\* shutdown(wait=True) of the executor returns
Quiescent(t) == \A b \in DOMAIN t : t[b] \notin {"pending", "running"}

NoTasks == [b \in AllBundles |-> "none"]

\* ---- initial states ----

\* a cache directory left by earlier runs: each file holds the blob its name
\* stands for, or a blob that is not that one
CacheDirs ==
    UNION {{d \in [S -> Content] : \A n \in S : d[n] = 0 \/ Sha1(d[n]) = n} :
           S \in SUBSET Names}

ProcessStart ==
    /\ pc = "start"
    /\ exitCode = 0
    /\ bundles = <<>>
    /\ vtask = NoTasks
    /\ idx = 0
    /\ etask = NoTasks
    /\ eidx = [b \in AllBundles |-> 0]
    /\ dlStarted = {}
    /\ dlFailed = {}

Init ==
    /\ cache \in CacheDirs
    /\ tree = <<>>
    /\ manifest \in SUBSET AllBundles
    /\ full \in BOOLEAN
    /\ threads \in ThreadCounts
    /\ ProcessStart
    /\ cacheBefore = cache
    /\ treeBefore = tree
    /\ prev = FALSE
    /\ ExtractIdle
    /\ MeterIdle
    /\ ApiIdle

\* a fresh installation: nothing cached, nothing installed
InitFresh ==
    /\ Init
    /\ cache = <<>>

\* ---- get_manifest, _verify_manifest ----

histVars == <<cacheBefore, treeBefore, prev>>
argVars == <<manifest, full, threads>>
runVars == <<cache, tree, pc, exitCode, bundles, vtask, idx, etask, eidx,
             dlStarted, dlFailed, argVars, histVars>>

\* no run of the program
RunIdle ==
    /\ cache = <<>>
    /\ tree = <<>>
    /\ manifest = {}
    /\ full = FALSE
    /\ threads = MaxThreads
    /\ ProcessStart
    /\ cacheBefore = cache
    /\ treeBefore = tree
    /\ prev = FALSE

Exit(code) ==
    /\ pc' = "exited"
    /\ exitCode' = code

\* get_manifest: the manifest is retrieved and decoded
GetManifest ==
    /\ pc = "start"
    /\ pc' = "purge"
    /\ UNCHANGED <<cache, tree, exitCode, bundles, vtask, idx, etask, eidx,
                   dlStarted, dlFailed>>
    /\ UNCHANGED <<argVars, histVars, unitVars>>

\* get_manifest: urlopen raises URLError, get_manifest returns False and the
\* process ends with sys.exit(-1)
GetManifestFails ==
    /\ pc = "start"
    /\ Exit(255)
    /\ UNCHANGED <<cache, tree, bundles, vtask, idx, etask, eidx, dlStarted, dlFailed>>
    /\ UNCHANGED <<argVars, histVars, unitVars>>

\* _verify_manifest: the loop over cache_dir.iterdir()
Purge ==
    /\ pc = "purge"
    /\ LET bundle_names == {Checksum(b) : b \in manifest}
           kept == {n \in DOMAIN cache : ~ShouldPurge(full, n, bundle_names)}
       IN cache' = Restrict(cache, kept)
    /\ pc' = "submit"
    /\ UNCHANGED <<tree, exitCode, bundles, vtask, idx, etask, eidx, dlStarted, dlFailed>>
    /\ UNCHANGED <<argVars, histVars, unitVars>>

\* _verify_manifest: self._bundles = list() and one future per manifest bundle
SubmitVerify ==
    /\ pc = "submit"
    /\ bundles' = <<>>
    /\ vtask' = [b \in AllBundles |-> IF b \in manifest THEN "pending" ELSE "none"]
    /\ pc' = "verifying"
    /\ UNCHANGED <<cache, tree, exitCode, idx, etask, eidx, dlStarted, dlFailed>>
    /\ UNCHANGED <<argVars, histVars, unitVars>>

\* a worker thread of the verification pool takes the next task of the queue
VerifyStart ==
    /\ pc \in {"verifying", "verify_raised"}
    /\ HasPending(vtask)
    /\ WorkerFree(vtask)
    /\ LET b == FirstPending(ManifestSeq(manifest), vtask)
       IN vtask' = [vtask EXCEPT ![b] = "running"]
    /\ UNCHANGED <<cache, tree, pc, exitCode, bundles, idx, etask, eidx, dlStarted, dlFailed>>
    /\ UNCHANGED <<argVars, histVars, unitVars>>

\* what curl.perform() can leave in the cache file of bundle b: its blob, or
\* bytes that are not its blob
Served(b) == {0, b}

\* _verify_bundle runs to its return
VerifyBundle(b) ==
    /\ pc \in {"verifying", "verify_raised"}
    /\ vtask[b] = "running"
    /\ vtask' = [vtask EXCEPT ![b] = "done"]
    /\ bundles' = IF NeedsDownload(cache, b) THEN Append(bundles, b) ELSE bundles
    /\ UNCHANGED <<cache, tree, pc, exitCode, idx, etask, eidx, dlStarted, dlFailed>>
    /\ UNCHANGED <<argVars, histVars, unitVars>>

\* _verify_bundle: the cache file exists, and opening or reading it raises
VerifyBundleRaises(b) ==
    /\ pc \in {"verifying", "verify_raised"}
    /\ vtask[b] = "running"
    /\ Checksum(b) \in DOMAIN cache
    /\ vtask' = [vtask EXCEPT ![b] = "failed"]
    /\ UNCHANGED <<cache, tree, pc, exitCode, bundles, idx, etask, eidx, dlStarted, dlFailed>>
    /\ UNCHANGED <<argVars, histVars, unitVars>>

\* as_completed yields a future whose result() raises: the exception leaves
\* the loop and enters the executor's __exit__, which is shutdown(wait=True)
VerifyObserveRaise ==
    /\ pc = "verifying"
    /\ \E b \in manifest : VerifyResultRaises(vtask[b])
    /\ pc' = "verify_raised"
    /\ UNCHANGED <<cache, tree, exitCode, bundles, vtask, idx, etask, eidx, dlStarted, dlFailed>>
    /\ UNCHANGED <<argVars, histVars, unitVars>>

\* shutdown(wait=True) returns, the exception reaches the top level
VerifyShutdown ==
    /\ pc = "verify_raised"
    /\ Quiescent(vtask)
    /\ Exit(1)
    /\ UNCHANGED <<cache, tree, bundles, vtask, idx, etask, eidx, dlStarted, dlFailed>>
    /\ UNCHANGED <<argVars, histVars, unitVars>>

\* every result() was True: _verify_manifest returns True
VerifyReturnTrue ==
    /\ pc = "verifying"
    /\ Quiescent(vtask)
    /\ \A b \in manifest : ~VerifyResultRaises(vtask[b])
    /\ pc' = "patch"
    /\ UNCHANGED <<cache, tree, exitCode, bundles, vtask, idx, etask, eidx, dlStarted, dlFailed>>
    /\ UNCHANGED <<argVars, histVars, unitVars>>

\* ---- patch, _download_bundle, _extract_bundle ----

\* patch: self._bundles.sort(...), then the loop over self._bundles begins
PatchBegin ==
    /\ pc = "patch"
    /\ bundles' = SortBySize(bundles)
    /\ idx' = 1
    /\ pc' = IF bundles = <<>> THEN "collect" ELSE "download"
    /\ UNCHANGED <<cache, tree, exitCode, vtask, etask, eidx, dlStarted, dlFailed>>
    /\ UNCHANGED <<argVars, histVars, unitVars>>

\* patch: _download_bundle of the next bundle in the main thread. The old
\* file is unlinked, a new one is created and filled by curl.perform(), which
\* raises or not (performed); blob is what the file holds afterwards. When
\* _download_bundle returns True the extraction task is submitted, otherwise
\* patch returns False, through the executor's shutdown(wait=True).
Download(performed, blob) ==
    /\ pc = "download"
    /\ blob \in Served(bundles[idx])
    /\ LET b == bundles[idx]
       IN /\ cache' = Put(cache, Checksum(b), blob)
          /\ dlStarted' = dlStarted \cup {b}
          /\ IF DownloadReturns(performed, blob, b)
             THEN /\ etask' = [etask EXCEPT ![b] = "pending"]
                  /\ idx' = idx + 1
                  /\ pc' = IF idx = Len(bundles) THEN "collect" ELSE "download"
                  /\ UNCHANGED dlFailed
             ELSE /\ dlFailed' = dlFailed \cup {b}
                  /\ pc' = "patch_false"
                  /\ UNCHANGED <<etask, idx>>
    /\ UNCHANGED <<tree, exitCode, bundles, vtask, eidx>>
    /\ UNCHANGED <<argVars, histVars, unitVars>>

\* a worker thread of the extraction pool takes the next task of the queue
ExtractStart ==
    /\ pc \in {"download", "collect", "patch_false", "patch_raised"}
    /\ HasPending(etask)
    /\ WorkerFree(etask)
    /\ LET b == FirstPending(bundles, etask)
       IN etask' = [etask EXCEPT ![b] = "running"]
    /\ UNCHANGED <<cache, tree, pc, exitCode, bundles, vtask, idx, eidx, dlStarted, dlFailed>>
    /\ UNCHANGED <<argVars, histVars, unitVars>>

\* _extract_bundle: the next entry of the bundle is unlinked, created and
\* written from the cache file; after the last entry the task returns True
ExtractEntry(b) ==
    /\ etask[b] = "running"
    /\ LET i == eidx[b] + 1
       IN /\ tree' = Put(tree, EntryFile(b, i), EntryData(cache[Checksum(b)], i))
          /\ eidx' = [eidx EXCEPT ![b] = i]
          /\ etask' = [etask EXCEPT ![b] = IF i = EntryCount(b) THEN "done" ELSE "running"]
    /\ UNCHANGED <<cache, pc, exitCode, bundles, vtask, idx, dlStarted, dlFailed>>
    /\ UNCHANGED <<argVars, histVars, unitVars>>

\* _extract_bundle: an I/O or decompression error while the next entry is
\* processed. The old file is already unlinked (written = FALSE), or the new
\* file is created and not completely written (written = TRUE).
ExtractEntryRaises(b, written) ==
    /\ etask[b] = "running"
    /\ LET f == EntryFile(b, eidx[b] + 1)
       IN tree' = IF written THEN Put(tree, f, 0)
                  ELSE Restrict(tree, (DOMAIN tree) \ {f})
    /\ etask' = [etask EXCEPT ![b] = "failed"]
    /\ UNCHANGED <<cache, pc, exitCode, bundles, vtask, idx, eidx, dlStarted, dlFailed>>
    /\ UNCHANGED <<argVars, histVars, unitVars>>

\* as_completed yields an extraction future whose result() raises
PatchObserveRaise ==
    /\ pc = "collect"
    /\ \E b \in Range(bundles) : ExtractResultRaises(etask[b])
    /\ pc' = "patch_raised"
    /\ UNCHANGED <<cache, tree, exitCode, bundles, vtask, idx, etask, eidx, dlStarted, dlFailed>>
    /\ UNCHANGED <<argVars, histVars, unitVars>>

\* the executor's shutdown(wait=True) returns: patch has returned False
\* (sys.exit(-1)) or its exception reaches the top level
PatchShutdown ==
    /\ pc \in {"patch_false", "patch_raised"}
    /\ Quiescent(etask)
    /\ Exit(IF pc = "patch_false" THEN 255 ELSE 1)
    /\ UNCHANGED <<cache, tree, bundles, vtask, idx, etask, eidx, dlStarted, dlFailed>>
    /\ UNCHANGED <<argVars, histVars, unitVars>>

\* every result() was True: patch returns True and the process exits with 0
PatchReturnTrue ==
    /\ pc = "collect"
    /\ Quiescent(etask)
    /\ \A b \in Range(bundles) : ~ExtractResultRaises(etask[b])
    /\ Exit(0)
    /\ UNCHANGED <<cache, tree, bundles, vtask, idx, etask, eidx, dlStarted, dlFailed>>
    /\ UNCHANGED <<argVars, histVars, unitVars>>

\* ---- the next run ----

\* the tool is started again on the same manifest, any number of times; the
\* files are as the previous process left them
NextRun ==
    /\ pc = "exited"
    /\ full' \in BOOLEAN
    /\ prev' = (~full /\ exitCode = 0)
    /\ cacheBefore' = cache
    /\ treeBefore' = tree
    /\ pc' = "start"
    /\ exitCode' = 0
    /\ bundles' = <<>>
    /\ vtask' = NoTasks
    /\ idx' = 0
    /\ etask' = NoTasks
    /\ eidx' = [b \in AllBundles |-> 0]
    /\ dlStarted' = {}
    /\ dlFailed' = {}
    /\ UNCHANGED <<cache, tree, manifest, threads, unitVars>>

\* the steps of one run of the program
RunNext ==
    \/ GetManifest
    \/ GetManifestFails
    \/ Purge
    \/ SubmitVerify
    \/ VerifyStart
    \/ \E b \in AllBundles : VerifyBundle(b)
    \/ \E b \in AllBundles : VerifyBundleRaises(b)
    \/ VerifyObserveRaise
    \/ VerifyShutdown
    \/ VerifyReturnTrue
    \/ PatchBegin
    \/ \E performed \in BOOLEAN, blob \in Content : Download(performed, blob)
    \/ ExtractStart
    \/ \E b \in AllBundles : ExtractEntry(b)
    \/ \E b \in AllBundles, written \in BOOLEAN : ExtractEntryRaises(b, written)
    \/ PatchObserveRaise
    \/ PatchShutdown
    \/ PatchReturnTrue

Next ==
    \/ RunNext
    \/ NextRun

Spec == Init /\ [][Next]_vars

SpecFresh == InitFresh /\ [][Next]_vars

\* a caller of the class that catches the exception get_manifest lets out of
\* _verify_manifest and then calls patch(): self._bundles was assigned
\* before the first task was submitted, so patch() finds the attribute and
\* goes on with the list the finished tasks have filled
VerifyRaiseCaught ==
    /\ pc = "verify_raised"
    /\ Quiescent(vtask)
    /\ pc' = "patch"
    /\ UNCHANGED <<cache, tree, exitCode, bundles, vtask, idx, etask, eidx,
                   dlStarted, dlFailed>>
    /\ UNCHANGED <<argVars, histVars, unitVars>>

NextCaller ==
    \/ Next
    \/ VerifyRaiseCaught

SpecCaller == Init /\ [][NextCaller]_vars

\* one run of the program from any cache directory, in which the main
\* thread and the worker threads keep being scheduled and every download,
\* hash and file operation returns or raises
SpecFair == Init /\ [][RunNext]_vars /\ WF_vars(RunNext)

\* ---- _extract_bundle, one call ----

\* the largest offset an entry of the bundle declares
MaxOffset == 10

\* the manifest gives offset, size and sizeZ as decimal strings: a string is
\* the sequence of its digits
RECURSIVE ToDecimal(_)
ToDecimal(n) == IF n < 10 THEN <<n>> ELSE Append(ToDecimal(n \div 10), n % 10)

\* int(s)
RECURSIVE ParseInt(_)
ParseInt(s) ==
    IF s = <<>> THEN 0 ELSE 10 * ParseInt(SubSeq(s, 1, Len(s) - 1)) + s[Len(s)]

\* a < b on str: the first differing character decides, a proper prefix is
\* smaller
RECURSIVE StrLess(_, _)
StrLess(a, b) ==
    IF b = <<>> THEN FALSE
    ELSE IF a = <<>> THEN TRUE
    ELSE IF Head(a) # Head(b) THEN Head(a) < Head(b)
    ELSE StrLess(Tail(a), Tail(b))

\* sorted(bundle["entries"], key=itemgetter("offset")): stable, the keys are
\* the strings
RECURSIVE InsertByOffset(_, _)
InsertByOffset(s, e) ==
    IF s = <<>> THEN <<e>>
    ELSE IF StrLess(e.offset, Head(s).offset) THEN <<e>> \o s
    ELSE <<Head(s)>> \o InsertByOffset(Tail(s), e)
RECURSIVE SortByOffset(_)
SortByOffset(s) ==
    IF s = <<>> THEN <<>>
    ELSE InsertByOffset(SortByOffset(SubSeq(s, 1, Len(s) - 1)), s[Len(s)])

\* the bytes of the cache file of the bundle
BlobLen == MaxOffset + 1
Blob == [i \in 1..BlobLen |-> (i * i) % 3]

\* cache_fp.seek(offset); cache_fp.read(n): up to n bytes from offset on
ReadAtStart(blob, offset, n) ==
    SubSeq(blob, 1, IF n < Len(blob) THEN n ELSE Len(blob))
ReadAt(blob, offset, n) ==
    SubSeq(blob, offset + 1, IF offset + n < Len(blob) THEN offset + n ELSE Len(blob))

\* zlib.decompress, as a run-length code: the stream is pairs of a count and
\* a byte, and a stream of odd length or with a count of 0 is rejected with
\* zlib.error
DecompressOK(z) ==
    /\ Len(z) % 2 = 0
    /\ \A i \in DOMAIN z : i % 2 = 1 => z[i] > 0
RECURSIVE Decompress(_)
Decompress(z) ==
    IF z = <<>> THEN <<>>
    ELSE [i \in 1..z[1] |-> z[2]] \o Decompress(SubSeq(z, 3, Len(z)))

\* mode bits; open(..., "xb") creates the file with 0o666 less the umask
S_IEXEC == {"ux"}
ModeCreate == {"ur", "uw", "gr"}

\* the mode of the file open(..., "xb") returns: the old file was unlinked,
\* the file is new
NewFileModeKept(dir, path) ==
    IF path \in DOMAIN dir THEN dir[path].mode ELSE ModeCreate
NewFileMode(dir, path) == ModeCreate

\* entry["filename"][1:]
EntryPath(e) == Tail(e.filename)

\* the entries a manifest can give for a file: raw of one or two bytes, or
\* two compressed bytes; with or without the executable key
FileA == <<"/", "a">>
FileB == <<"/", "b">>
EntryChoices(f) ==
    {[filename |-> f, offset |-> ToDecimal(o), size |-> k[1], sizeZ |-> k[2],
      executable |-> x] :
        o \in 0..MaxOffset,
        k \in {<<<<1>>, <<0>>>>, <<<<2>>, <<0>>>>, <<<<1>>, <<2>>>>},
        x \in BOOLEAN}

\* a file some earlier version installed: other bytes, executable
OldFile == [data |-> <<2, 2, 2>>, mode |-> {"ur", "uw", "ux"}]
OldTrees ==
    {[q \in S |-> OldFile] : S \in SUBSET {EntryPath([filename |-> FileA]),
                                           EntryPath([filename |-> FileB])}}

InitExtract ==
    /\ RunIdle
    /\ MeterIdle
    /\ ApiIdle
    /\ entries \in {<<a>> : a \in EntryChoices(FileA)} \cup
                   {<<a, b>> : a \in EntryChoices(FileA), b \in EntryChoices(FileB)}
    /\ files \in OldTrees
    /\ filesBefore = files
    /\ todo = <<>>
    /\ processed = <<>>
    /\ epc = "start"

\* line 336: the entries are sorted
ExtractSort ==
    /\ epc = "start"
    /\ todo' = SortByOffset(entries)
    /\ epc' = "loop"
    /\ UNCHANGED <<entries, files, processed, filesBefore>>
    /\ UNCHANGED <<runVars, meterVars, apiVars>>

\* the bytes the loop body reads for an entry
EntryRead(e) ==
    ReadAt(Blob, ParseInt(e.offset),
           IF e.sizeZ # <<0>> THEN ParseInt(e.sizeZ) ELSE ParseInt(e.size))

\* one pass of the loop body: unlink, create, write, chmod
ExtractWrite ==
    /\ epc = "loop"
    /\ todo # <<>>
    /\ LET e == Head(todo)
           created == NewFileMode(files, EntryPath(e))
       IN /\ e.sizeZ # <<0>> => DecompressOK(EntryRead(e))
          /\ files' = Put(files, EntryPath(e),
                 [data |-> IF e.sizeZ # <<0>> THEN Decompress(EntryRead(e))
                           ELSE EntryRead(e),
                  mode |-> IF e.executable THEN created \cup S_IEXEC ELSE created])
          /\ processed' = Append(processed, e)
    /\ todo' = Tail(todo)
    /\ UNCHANGED <<entries, filesBefore, epc>>
    /\ UNCHANGED <<runVars, meterVars, apiVars>>

\* one pass of the loop body: unlink, create, and decompress raises
\* zlib.error, which leaves the new file empty and ends the call
ExtractDecompressRaises ==
    /\ epc = "loop"
    /\ todo # <<>>
    /\ LET e == Head(todo)
       IN /\ e.sizeZ # <<0>>
          /\ ~DecompressOK(EntryRead(e))
          /\ files' = Put(files, EntryPath(e),
                 [data |-> <<>>, mode |-> NewFileMode(files, EntryPath(e))])
          /\ processed' = Append(processed, e)
    /\ epc' = "raised"
    /\ UNCHANGED <<entries, todo, filesBefore>>
    /\ UNCHANGED <<runVars, meterVars, apiVars>>

\* the loop is over, _extract_bundle returns True
ExtractReturn ==
    /\ epc = "loop"
    /\ todo = <<>>
    /\ epc' = "done"
    /\ UNCHANGED <<entries, files, todo, processed, filesBefore>>
    /\ UNCHANGED <<runVars, meterVars, apiVars>>

NextExtract ==
    \/ ExtractSort
    \/ ExtractWrite
    \/ ExtractDecompressRaises
    \/ ExtractReturn

SpecExtract == InitExtract /\ [][NextExtract]_vars

\* ---- ProgressMeter, one download ----

\* download_total once the length of the bundle is known, and the most
\* bytes a call of display_progress reports
MeterTotal == 200
MaxDownloaded == 8

Abs(x) == IF x < 0 THEN 0 - x ELSE x

\* line 48, for downloaded = d of MeterTotal: last_fraction is neither None
\* nor 0, and is less than 0.01 away from the new fraction
Throttled(last, d) ==
    /\ last # <<>>
    /\ last[1] # 0
    /\ 100 * Abs(last[1] - d) < MeterTotal

InitMeter ==
    /\ RunIdle
    /\ ExtractIdle
    /\ ApiIdle
    /\ MeterIdle

\* display_progress(0, d, ...): download_total is 0, nothing is printed
MeterNoTotal(d) ==
    /\ d >= dlnow
    /\ dlnow' = d
    /\ UNCHANGED <<last_fraction, shown>>
    /\ UNCHANGED <<runVars, extractVars, apiVars>>

\* display_progress(MeterTotal, d, ...) returns at line 49
MeterThrottled(d) ==
    /\ d >= dlnow
    /\ Throttled(last_fraction, d)
    /\ dlnow' = d
    /\ UNCHANGED <<last_fraction, shown>>
    /\ UNCHANGED <<runVars, extractVars, apiVars>>

\* display_progress(MeterTotal, d, ...) stores the fraction and prints it
MeterPrint(d) ==
    /\ d >= dlnow
    /\ ~Throttled(last_fraction, d)
    /\ dlnow' = d
    /\ last_fraction' = <<d>>
    /\ shown' = IF Len(shown) < 2 THEN Append(shown, d) ELSE <<shown[2], d>>
    /\ UNCHANGED <<runVars, extractVars, apiVars>>

NextMeter ==
    \/ \E d \in 0..MaxDownloaded : MeterNoTotal(d)
    \/ \E d \in 0..MaxDownloaded : MeterThrottled(d)
    \/ \E d \in 0..MaxDownloaded : MeterPrint(d)

SpecMeter == InitMeter /\ [][NextMeter]_vars

\* ---- login, get_streams, get_manifest called in any order ----

\* the streams UberNet lists, and the stream names a caller asks for
StreamPool == {"stable", "PTE"}

\* what a call returned (result), whether it sent a request (sent) and
\* whether it reached _verify_manifest, which works on the files (acted)
Call(op, arg, result, sent, acted) ==
    [op |-> op, arg |-> arg, result |-> result, sent |-> sent, acted |-> acted]

InitApi ==
    /\ RunIdle
    /\ ExtractIdle
    /\ MeterIdle
    /\ ApiIdle

\* login: a ticket is held, return True at once
LoginHeld ==
    /\ "_session" \in attrs
    /\ lastCall' = Call("login", "none", "True", FALSE, FALSE)
    /\ loginSince' = TRUE
    /\ UNCHANGED <<attrs, streamNames, selected>>
    /\ UNCHANGED <<runVars, extractVars, meterVars>>

\* login: the request is sent; it gives a ticket, or is refused (status or
\* no SessionTicket), or raises
LoginRequest(outcome) ==
    /\ "_session" \notin attrs
    /\ attrs' = IF outcome = "True" THEN attrs \cup {"_session"} ELSE attrs
    /\ lastCall' = Call("login", "none", outcome, TRUE, FALSE)
    /\ loginSince' = (loginSince \/ outcome = "True")
    /\ UNCHANGED <<streamNames, selected>>
    /\ UNCHANGED <<runVars, extractVars, meterVars>>

\* get_streams: no ticket, return None
GetStreamsNoTicket ==
    /\ "_session" \notin attrs
    /\ lastCall' = Call("get_streams", "none", "None", FALSE, FALSE)
    /\ loginSince' = FALSE
    /\ UNCHANGED <<attrs, streamNames, selected>>
    /\ UNCHANGED <<runVars, extractVars, meterVars>>

\* get_streams: the ticket is deleted, the request is sent; it gives the
\* streams, or fails with a status (None), or raises
GetStreams(outcome, names) ==
    /\ "_session" \in attrs
    /\ attrs' = IF outcome = "streams"
                THEN (attrs \ {"_session"}) \cup {"_streams"}
                ELSE attrs \ {"_session"}
    /\ streamNames' = IF outcome = "streams" THEN names ELSE streamNames
    /\ lastCall' = Call("get_streams", "none", outcome, TRUE, FALSE)
    /\ loginSince' = FALSE
    /\ UNCHANGED selected
    /\ UNCHANGED <<runVars, extractVars, meterVars>>

\* get_manifest: there is no self._streams or the stream is not in it
GetManifestRefused(stream) ==
    /\ "_streams" \notin attrs \/ stream \notin streamNames
    /\ lastCall' = Call("get_manifest", stream, "False", FALSE, FALSE)
    /\ UNCHANGED <<attrs, streamNames, loginSince, selected>>
    /\ UNCHANGED <<runVars, extractVars, meterVars>>

\* get_manifest: the stream is selected and self._streams deleted; then
\* urlopen raises URLError (False), or _verify_manifest returns True having
\* deleted self._manifest, or a verification task raises
GetManifestSelect(stream, outcome) ==
    /\ "_streams" \in attrs
    /\ stream \in streamNames
    /\ attrs' = ((attrs \ {"_streams"}) \cup {"_stream"}) \cup
                   (CASE outcome = "False" -> {}
                      [] outcome = "True" -> {"_bundles"}
                      [] outcome = "raised" -> {"_manifest", "_bundles"})
    /\ streamNames' = {}
    /\ lastCall' = Call("get_manifest", stream, outcome, TRUE, outcome # "False")
    /\ selected' = TRUE
    /\ UNCHANGED loginSince
    /\ UNCHANGED <<runVars, extractVars, meterVars>>

NextApi ==
    \/ LoginHeld
    \/ \E outcome \in {"True", "False", "raised"} : LoginRequest(outcome)
    \/ GetStreamsNoTicket
    \/ \E outcome \in {"streams", "None", "raised"}, names \in SUBSET StreamPool :
          GetStreams(outcome, names)
    \/ \E stream \in StreamPool : GetManifestRefused(stream)
    \/ \E stream \in StreamPool, outcome \in {"True", "False", "raised"} :
          GetManifestSelect(stream, outcome)

SpecApi == InitApi /\ [][NextApi]_vars

\* ---- properties ----

\* the file of that name is in the directory and its SHA-1 is its name
Valid(dir, n) == n \in DOMAIN dir /\ Sha1(dir[n]) = n

\* the entries of bundle b are installed with their complete content
Installed(b) ==
    \A i \in EntriesOf(b) :
        /\ EntryFile(b, i) \in DOMAIN tree
        /\ tree[EntryFile(b, i)] = EntryData(b, i)

\* C1: when _verify_manifest has returned True, self._bundles holds each
\* manifest bundle exactly once if its cache file is absent or its SHA-1
\* differs from its checksum, and no other bundle, whatever the order in
\* which the verification workers ran.
C1_NeededExactlyOnce ==
    pc = "patch" =>
        \A b \in AllBundles :
            Count(bundles, b) =
                IF b \in manifest /\ ~Valid(cache, Checksum(b)) THEN 1 ELSE 0

\* C1 witness: verification has returned True with two threads; a corrupt
\* and an absent bundle were appended out of manifest order.
C1_Witness ==
    /\ pc = "patch"
    /\ threads > 1
    /\ \E b \in manifest : Checksum(b) \in DOMAIN cache /\ ~Valid(cache, Checksum(b))
    /\ \E b \in manifest : Checksum(b) \notin DOMAIN cache
    /\ Len(bundles) = 2
    /\ bundles[1] > bundles[2]

\* C2: after the purge the cache directory holds exactly the files it held
\* before whose names are manifest checksums, unchanged, when full is not
\* set, and no file when full is set; with full set every manifest bundle is
\* in the needed list once verification has returned True.
C2_StalePurge ==
    /\ pc = "submit" =>
          IF full THEN DOMAIN cache = {}
          ELSE cache = Restrict(cacheBefore, {Checksum(b) : b \in manifest})
    /\ (pc = "patch" /\ full) => Range(bundles) = manifest

\* C2 witness: a purge without full has deleted a file and kept a corrupt one.
C2_Witness ==
    /\ pc = "submit"
    /\ ~full
    /\ DOMAIN cache # DOMAIN cacheBefore
    /\ \E n \in DOMAIN cache : ~Valid(cache, n)

\* C3: an extraction task exists (submitted, running or finished) only for a
\* bundle whose download has finished in this run with the SHA-1 of the
\* written file equal to the checksum; a bundle whose download failed has no
\* extraction task and none of its entries is processed.
C3_ExtractAfterVerifiedDownload ==
    \A b \in AllBundles :
        /\ etask[b] # "none" =>
              /\ b \in dlStarted
              /\ b \notin dlFailed
              /\ Valid(cache, Checksum(b))
        /\ b \in dlFailed => etask[b] = "none" /\ eidx[b] = 0

\* C3 witness: one bundle is being extracted while the download of another
\* one has failed.
C3_Witness ==
    /\ \E b \in AllBundles : etask[b] = "running"
    /\ dlFailed # {}

\* the bundles a run has to fetch: those of the manifest that the cache
\* directory of the start of the run does not hold valid, all of them with full
NeededAtStart ==
    {b \in manifest : full \/ ~Valid(cacheBefore, Checksum(b))}

\* C4: the process exits with 0 only if every verification task returned and
\* every needed bundle was downloaded, checksum-verified and extracted to
\* its last entry; if a download, a checksum check or an extraction failed
\* the exit code is not 0.
C4_SuccessOnlyIfComplete ==
    pc = "exited" =>
        /\ exitCode = 0 =>
              /\ \A b \in manifest : vtask[b] = "done"
              /\ \A b \in NeededAtStart :
                    /\ b \in dlStarted \ dlFailed
                    /\ Valid(cache, Checksum(b))
                    /\ etask[b] = "done"
                    /\ eidx[b] = EntryCount(b)
                    /\ Installed(b)
        /\ (dlFailed # {} \/ \E b \in AllBundles : "failed" \in {vtask[b], etask[b]})
              => exitCode # 0

\* C4 witness: a run that had to fetch two bundles or more has exited with 0.
C4_Witness ==
    /\ pc = "exited"
    /\ exitCode = 0
    /\ Cardinality(NeededAtStart) > 1

\* C5: when a run has exited with 0, every file of the cache directory has
\* a SHA-1 equal to its name.
C5_ContentAddressed ==
    (pc = "exited" /\ exitCode = 0) =>
        \A n \in DOMAIN cache : Sha1(cache[n]) = n

\* C5 witness: a run without full that started with a stale corrupt file and
\* a corrupt file of a manifest bundle has exited with 0, files remaining.
C5_Witness ==
    /\ pc = "exited"
    /\ exitCode = 0
    /\ ~full
    /\ \E b \in AllBundles \ manifest :
          Checksum(b) \in DOMAIN cacheBefore /\ ~Valid(cacheBefore, Checksum(b))
    /\ \E b \in manifest :
          Checksum(b) \in DOMAIN cacheBefore /\ ~Valid(cacheBefore, Checksum(b))
    /\ DOMAIN cache # {}

\* C6: a run without full that follows a run without full that exited with
\* 0 needs no bundle, downloads nothing, extracts nothing and leaves the
\* cache directory and the installation tree as they were.
C6_Idempotent ==
    (prev /\ ~full) =>
        /\ bundles = <<>>
        /\ dlStarted = {}
        /\ etask = NoTasks
        /\ tree = treeBefore
        /\ cache = cacheBefore

\* C6 witness: the second of two runs without full has exited with 0 after
\* the first one installed the whole manifest.
C6_Witness ==
    /\ prev
    /\ ~full
    /\ pc = "exited"
    /\ exitCode = 0
    /\ Cardinality(manifest) > 1
    /\ \A b \in manifest : Installed(b)

\* C7: from a fresh installation, whatever happened in earlier runs, a run
\* that exits with 0 leaves every entry of every manifest bundle installed
\* with its complete content.
C7_SyncedMeansInstalled ==
    (pc = "exited" /\ exitCode = 0) => \A b \in manifest : Installed(b)

\* C8: once a verification task has failed with an I/O error, the run
\* starts no download and no extraction, changes no file of the
\* installation tree, and its exit code is not 0.
C8_VerifyErrorFailsRun ==
    (\E b \in AllBundles : vtask[b] = "failed") =>
        /\ pc \in {"verifying", "verify_raised", "exited"}
        /\ dlStarted = {}
        /\ etask = NoTasks
        /\ tree = treeBefore
        /\ pc = "exited" => exitCode # 0

\* C8 witness: a run over several bundles has exited after one verification
\* task raised and another one found its bundle needed.
C8_Witness ==
    /\ pc = "exited"
    /\ \E b \in manifest : vtask[b] = "failed"
    /\ bundles # <<>>
    /\ Cardinality(manifest) > 1

\* C9: after _verify_manifest has observed the failure of a verification
\* task, no _verify_bundle task begins executing.
C9_NoVerifyStartAfterFailure ==
    [][pc = "verify_raised" =>
          \A b \in AllBundles : ~(vtask[b] = "pending" /\ vtask'[b] = "running")]_vars

\* C10: after a download has failed in patch(), no _extract_bundle task
\* begins executing and no further download is started.
C10_NoExtractStartAfterDownloadFailure ==
    [][pc = "patch_false" =>
          /\ \A b \in AllBundles : ~(etask[b] = "pending" /\ etask'[b] = "running")
          /\ dlStarted' = dlStarted]_vars

\* C11: after an extraction task has failed during patch(), no download is
\* started and no _extract_bundle task begins executing.
C11_NothingStartsAfterExtractFailure ==
    [][(pc # "exited" /\ \E b \in AllBundles : etask[b] = "failed") =>
          /\ dlStarted' = dlStarted
          /\ \A b \in AllBundles : ~(etask[b] = "pending" /\ etask'[b] = "running")]_vars

\* the start order of the downloads when the verification tasks run one
\* after the other in manifest order
SequentialOrder == SortBySize(ManifestSeq(Range(bundles)))

\* C15: the order in which patch() starts the downloads is the same for
\* every interleaving of the verification workers (it is the order a
\* sequential verification gives) and is non-increasing in declared size.
C15_DownloadOrderDeterministic ==
    pc \in {"download", "collect", "patch_false", "patch_raised"} =>
        /\ bundles = SequentialOrder
        /\ \A i, j \in DOMAIN bundles : i < j => Size(bundles[i]) >= Size(bundles[j])

\* C18: the purge and the verification change no file of the installation
\* tree, create no cache file and, without full, leave every cache file
\* named by a manifest checksum as it is, valid or not; a download changes
\* no file of the installation tree and no cache file but the one named by
\* the checksum of its bundle.
C18_CacheFrame ==
    [][/\ pc \in {"purge", "submit", "verifying", "verify_raised"} =>
             /\ tree' = tree
             /\ DOMAIN cache' \subseteq DOMAIN cache
             /\ \A n \in DOMAIN cache' : cache'[n] = cache[n]
             /\ ~full => \A b \in manifest :
                    Checksum(b) \in DOMAIN cache => Checksum(b) \in DOMAIN cache'
       /\ dlStarted' \ dlStarted # {} =>
             /\ tree' = tree
             /\ \A n \in Names \ {Checksum(bundles[idx])} :
                    /\ n \in DOMAIN cache' <=> n \in DOMAIN cache
                    /\ n \in DOMAIN cache => cache'[n] = cache[n]]_vars

\* C18 witness: in a later run without full the verification has returned
\* with a corrupt file of a manifest bundle still in the cache directory and
\* the installed files as they were.
C18_Witness ==
    /\ pc = "patch"
    /\ ~full
    /\ tree # <<>>
    /\ tree = treeBefore
    /\ \E b \in manifest :
          Checksum(b) \in DOMAIN cache /\ ~Valid(cache, Checksum(b))

\* C20: _verify_manifest and patch() terminate, and when either has returned
\* or raised no task of its pool is queued or running, on the success path
\* and on every failure path.
C20_QuiescentOnReturn ==
    /\ [](pc \in {"patch", "download", "collect", "patch_false", "patch_raised", "exited"} =>
             \A b \in AllBundles : vtask[b] \notin {"pending", "running"})
    /\ [](pc = "exited" => \A b \in AllBundles : etask[b] \notin {"pending", "running"})
    /\ (pc = "purge" ~> pc \in {"patch", "exited"})
    /\ (pc = "patch" ~> pc = "exited")

\* C20 witness: patch() has returned False after a failed download, with an
\* extraction task of an earlier bundle run to its end.
C20_Witness ==
    /\ pc = "exited"
    /\ exitCode = 255
    /\ dlFailed # {}
    /\ \E b \in AllBundles : etask[b] = "done"

\* C14: once a verification task has raised, so that _verify_manifest has
\* failed, patch() downloads nothing, extracts nothing and does not return
\* True.
C14_NoPatchAfterFailedVerify ==
    (\E b \in AllBundles : vtask[b] = "failed") =>
        /\ pc \notin {"download", "collect", "patch_false", "patch_raised"}
        /\ dlStarted = {}
        /\ etask = NoTasks
        /\ pc = "exited" => exitCode # 0

\* blob[lo : hi]
PySlice(blob, lo, hi) ==
    [i \in 1..((IF hi < Len(blob) THEN hi ELSE Len(blob)) - lo) |-> blob[lo + i]]

\* C12: when _extract_bundle has returned, the file of every entry holds
\* exactly blob[offset : offset+size] if sizeZ is 0 and exactly the
\* decompression of blob[offset : offset+sizeZ] otherwise, whatever the file
\* held before.
C12_ExtractedContent ==
    epc = "done" =>
        \A i \in DOMAIN entries :
            LET e == entries[i]
                off == ParseInt(e.offset)
            IN /\ EntryPath(e) \in DOMAIN files
               /\ files[EntryPath(e)].data =
                     IF ParseInt(e.sizeZ) = 0
                     THEN PySlice(Blob, off, off + ParseInt(e.size))
                     ELSE Decompress(PySlice(Blob, off, off + ParseInt(e.sizeZ)))

\* C12 witness: the call has returned for a bundle with a compressed entry
\* and a raw entry at a two-digit offset, both over files that existed.
C12_Witness ==
    /\ epc = "done"
    /\ Len(entries) > 1
    /\ \A i \in DOMAIN entries : EntryPath(entries[i]) \in DOMAIN filesBefore
    /\ \E i \in DOMAIN entries : entries[i].sizeZ # <<0>>
    /\ \E i \in DOMAIN entries :
          entries[i].sizeZ = <<0>> /\ Len(entries[i].offset) > 1

\* C13: when _extract_bundle has returned, the file of an entry with the
\* executable key has the owner-execute bit and otherwise the mode it was
\* created with, and the file of an entry without the key has no
\* owner-execute bit, also where an executable file was at the path before.
C13_ExecutableBit ==
    epc = "done" =>
        \A i \in DOMAIN entries :
            LET e == entries[i]
                mode == files[EntryPath(e)].mode
            IN /\ e.executable => "ux" \in mode /\ mode \ {"ux"} = ModeCreate
               /\ ~e.executable => "ux" \notin mode

\* C13 witness: the call has returned for a bundle with an entry without the
\* key over a file that was executable, and an entry with the key.
C13_Witness ==
    /\ epc = "done"
    /\ \E i \in DOMAIN entries :
          /\ ~entries[i].executable
          /\ EntryPath(entries[i]) \in DOMAIN filesBefore
          /\ "ux" \in filesBefore[EntryPath(entries[i])].mode
    /\ \E i \in DOMAIN entries :
          entries[i].executable /\ EntryPath(entries[i]) \notin DOMAIN filesBefore

\* C16: _extract_bundle takes the entries in non-decreasing numeric order of
\* their offsets, whatever the digit counts of the offsets.
C16_NumericOffsetOrder ==
    \A i, j \in DOMAIN processed :
        i < j => ParseInt(processed[i].offset) <= ParseInt(processed[j].offset)

\* C17: any two consecutive progress notifications of a download with a
\* non-zero total differ by at least 1% of the total.
C17_ProgressThrottled ==
    Len(shown) = 2 => 100 * Abs(shown[2] - shown[1]) >= MeterTotal

\* C19: get_streams returns None without a request unless a login has
\* succeeded since the last get_streams call, and consumes the ticket;
\* get_manifest returns False and does nothing unless the stream list
\* exists and holds the name, leaving the list as it is; get_manifest
\* returns False on every call after one call has selected a stream; login
\* with a ticket held returns True without a request.
C19_CallOrderGating ==
    [][/\ lastCall'.op = "get_streams" =>
             /\ "_session" \notin attrs'
             /\ ~loginSince => lastCall'.result = "None" /\ ~lastCall'.sent
       /\ (/\ lastCall'.op = "get_manifest"
           /\ "_streams" \notin attrs \/ lastCall'.arg \notin streamNames) =>
             /\ lastCall'.result = "False"
             /\ ~lastCall'.sent /\ ~lastCall'.acted
             /\ attrs' = attrs /\ streamNames' = streamNames
       /\ (lastCall'.op = "get_manifest" /\ selected) => lastCall'.result = "False"
       /\ (lastCall'.op = "login" /\ "_session" \in attrs) =>
             lastCall'.result = "True" /\ ~lastCall'.sent]_vars

====
